---- MODULE Spec2Model ----
(***************************************************************************)
(* Model of verifier/verifier.go: the concurrent verification engine       *)
(* (VerifySingle, Verify, worker).  The SMTP session, the address parser,  *)
(* the error classifiers, the disposable list and the gravatar check live  *)
(* outside verifier.go and are modelled by their contracts: the results of *)
(* the session (open, catch-all, probe) are chosen by the environment at   *)
(* each call, the disposable list and the gravatar registry are fixed.     *)
(***************************************************************************)
EXTENDS Integers, Sequences, FiniteSets, TLC

(* ----------------------------- bounds ---------------------------------- *)
MaxAddrs == 2          \* longest input sequence handed to Verify

(* ------------------------------ data ----------------------------------- *)
Min(a, b) == IF a < b THEN a ELSE b

Range(s) == {s[n] : n \in 1..Len(s)}

\* Address, as produced by ParseAddress (Address, Username, Domain).
Addr(u, d) == [Address |-> u \o "@" \o d, Username |-> u, Domain |-> d]

AddrUniverse == {Addr("a", "x"), Addr("b", "x"), Addr("c", "y")}

Domains == {a.Domain : a \in AddrUniverse}

\* NewVerifier stores maxWorkerCount as given: an int, never validated.  Counts
\* above the number of domains start the same workers as that number does.
WorkerCounts == (-1)..Cardinality(Domains)

\* Raw strings handed to VerifySingle.
RawEmails == {a.Address : a \in AddrUniverse} \cup {"not-an-email"}

\* ParseAddress(email): the parsed Address, or <<>> with a non-nil error.
ParseAddress(email) ==
    IF \E a \in AddrUniverse : a.Address = email
    THEN [address |-> CHOOSE a \in AddrUniverse : a.Address = email, err |-> "nil"]
    ELSE [address |-> <<>>, err |-> "parse error"]

(* ----------------------------- errors ---------------------------------- *)
NilErr == "nil"
ErrEmailParseFailure == "Failed to parse email address"
ErrNoSuchHost == "Mail server does not exist"
ErrFullInbox == "Recipient out of disk space"
ErrServerUnavailable == "Mail server is unavailable"
RawNoSuchHost == "dial tcp: lookup: no such host"
RawOther == "554 connection refused"

\* Errors NewDeliverabler can return, and errors IsDeliverable can return.
OpenErrs == {NilErr, RawNoSuchHost, RawOther}
ProbeErrs == {NilErr, ErrFullInbox, RawNoSuchHost, RawOther}

\* parseSTDErr(err) -> (basicErr, detailErr)
parseSTDErr(err) ==
    IF err = NilErr THEN <<NilErr, NilErr>>
    ELSE IF err = RawNoSuchHost THEN <<ErrNoSuchHost, err>>
    ELSE <<ErrServerUnavailable, err>>

\* parseRCPTErr(err) -> (basicErr, detailErr)
parseRCPTErr(err) ==
    IF err = NilErr THEN <<NilErr, NilErr>>
    ELSE IF err = ErrFullInbox THEN <<NilErr, NilErr>>
    ELSE IF err = RawNoSuchHost THEN <<ErrNoSuchHost, err>>
    ELSE <<ErrServerUnavailable, err>>

\* errStr(err): the message of err, "" for nil.
errStr(err) == IF err = NilErr THEN "" ELSE err

\* Disposabler.IsDisposable(domain): membership in the disposable list.
DisposableDomains == {"y"}
IsDisposable(domain) == domain \in DisposableDomains

\* Verifier.HasGravatar(address): whether a gravatar is registered for the address.
GravatarAddresses == {"a@x", "c@y"}
HasGravatar(address) == address.Address \in GravatarAddresses

(* ------------------------------ state ---------------------------------- *)
VARIABLES
    entry,          \* "Verify" or "VerifySingle": the entry point called
    email,          \* VerifySingle's argument
    maxWorkerCount, \* Verifier.maxWorkerCount
    addresses,      \* Verify's argument: sequence of Address
    pc,             \* position of the calling goroutine
    domainQueue,    \* map domain -> sequence of input positions (*Address)
    pending,        \* domains of domainQueue not yet put on jobs
    made,           \* TRUE once the jobs and results channels exist
    jobs,           \* buffered channel of batches
    jobsClosed,     \* close(jobs) was executed
    results,        \* buffered channel of Lookups
    lookups,        \* Verify's result slice
    workers,        \* Verify's local "workers": the number of goroutines to start
    w,              \* worker goroutines: position and local variables
    singleRet,      \* VerifySingle's results (lookup, err)
    calls           \* history: collaborator calls made during the call, what
                    \* the session returned, and the input positions whose
                    \* Lookup was sent, in the order sent

vars == <<entry, email, maxWorkerCount, addresses, pc, domainQueue, pending,
          made, jobs, jobsClosed, results, lookups, workers, w, singleRet, calls>>

\* Worker goroutines that can exist: workers <= len(domainQueue).
WorkerIds == 1..Cardinality(Domains)

Positions == 1..MaxAddrs

SeqsUpTo(S, n) == UNION {[1..m -> S] : m \in 0..n}

\* Local variables of a worker between two batches.
IdleLocals ==
    [j |-> <<>>, i |-> 0, deliverabler |-> FALSE, hostExists |-> TRUE,
     catchAll |-> FALSE, disposable |-> FALSE,
     basicErr |-> NilErr, detailErr |-> NilErr,
     deliverable |-> FALSE, fullInbox |-> FALSE, gravatar |-> FALSE,
     probeDone |-> FALSE, gravatarDone |-> FALSE]

WorkerAt(p) == [pc |-> p] @@ IdleLocals

NoCalls ==
    [open |-> [d \in Domains |-> 0], opened |-> [d \in Domains |-> 0],
     close |-> [d \in Domains |-> 0],
     catchAll |-> [d \in Domains |-> 0], catchAllRet |-> [d \in Domains |-> "none"],
     probe |-> [d \in Domains |-> 0], disposable |-> [d \in Domains |-> 0],
     gravatar |-> [p \in Positions |-> 0],
     openRet |-> [d \in Domains |-> "none"],
     probeRet |-> [p \in Positions |-> "none"],
     sent |-> <<>>]

Init ==
    /\ entry \in {"Verify", "VerifySingle"}
    /\ maxWorkerCount \in WorkerCounts
    /\ IF entry = "Verify"
       THEN /\ email = ""
            /\ addresses \in SeqsUpTo(AddrUniverse, MaxAddrs)
            /\ pc = "start"
       ELSE /\ email \in RawEmails
            /\ addresses = <<>>
            /\ pc = "single"
    /\ domainQueue = <<>>
    /\ pending = {}
    /\ made = FALSE
    /\ jobs = <<>>
    /\ jobsClosed = FALSE
    /\ results = <<>>
    /\ lookups = <<>>
    /\ workers = 0
    /\ w = [k \in WorkerIds |-> WorkerAt("unstarted")]
    /\ singleRet = [lookup |-> <<>>, err |-> NilErr, done |-> FALSE]
    /\ calls = NoCalls

(* ---------------------------- VerifySingle ----------------------------- *)
\* Mutant of VerifySingleParse: the parser's own error is returned instead of
\* ErrEmailParseFailure.
VerifySingleParseRawErr ==
    /\ pc = "single"
    /\ LET r == ParseAddress(email) IN
       IF r.err # NilErr
       THEN /\ singleRet' = [lookup |-> <<>>, err |-> r.err, done |-> TRUE]
            /\ pc' = "singleReturned"
            /\ UNCHANGED addresses
       ELSE /\ addresses' = <<r.address>>
            /\ pc' = "start"
            /\ UNCHANGED singleRet
    /\ UNCHANGED <<entry, email, maxWorkerCount, domainQueue, pending, made, jobs,
                   jobsClosed, results, lookups, workers, w, calls>>

\* VerifySingle, lines 54-57: parse; on failure return (nil, ErrEmailParseFailure).
VerifySingleParse ==
    /\ pc = "single"
    /\ LET r == ParseAddress(email) IN
       IF r.err # NilErr
       THEN /\ singleRet' = [lookup |-> <<>>, err |-> ErrEmailParseFailure, done |-> TRUE]
            /\ pc' = "singleReturned"
            /\ UNCHANGED addresses
       ELSE /\ addresses' = <<r.address>>
            /\ pc' = "start"
            /\ UNCHANGED singleRet
    /\ UNCHANGED <<entry, email, maxWorkerCount, domainQueue, pending, made, jobs,
                   jobsClosed, results, lookups, workers, w, calls>>

\* VerifySingle, line 58: return v.Verify(address)[0], nil.
VerifySingleReturn ==
    /\ entry = "VerifySingle"
    /\ pc = "returned"
    /\ singleRet' = [lookup |-> lookups[1], err |-> NilErr, done |-> TRUE]
    /\ pc' = "singleReturned"
    /\ UNCHANGED <<entry, email, maxWorkerCount, addresses, domainQueue, pending,
                   made, jobs, jobsClosed, results, lookups, workers, w, calls>>

(* ------------------------------- Verify -------------------------------- *)
\* Lines 68-72: append each input position to the queue of its domain.
RECURSIVE GroupFrom(_, _, _)
GroupFrom(addrs, n, q) ==
    IF n > Len(addrs) THEN q
    ELSE LET d == addrs[n].Domain
             old == IF d \in DOMAIN q THEN q[d] ELSE <<>>
             rest == [e \in DOMAIN q \ {d} |-> q[e]]
         IN GroupFrom(addrs, n + 1, (d :> Append(old, n)) @@ rest)

Group(addrs) == GroupFrom(addrs, 1, <<>>)

\* Mutant of WorkerCount: the cap by the number of domains is forgotten.
WorkerCountUncapped(max, ndomains) == max

\* Lines 85-88: the number of workers to start.
WorkerCount(max, ndomains) == IF ndomains < max THEN ndomains ELSE max

\* Mutant of ResultsCap: results is sized by the number of domains.
ResultsCapPerDomain(addrs) == Cardinality({addrs[n].Domain : n \in 1..Len(addrs)})

\* Line 81: capacity of jobs.  Lines 71, 82: capacity of results (totalLookups).
JobsCap(q) == Cardinality(DOMAIN q)
ResultsCap(addrs) == Len(addrs)

\* Mutant of DrainCount: one receive per domain instead of one per address.
DrainCountPerDomain(addrs) == Cardinality({addrs[n].Domain : n \in 1..Len(addrs)})

\* Line 103: the number of receives from results, len(addresses).
DrainCount(addrs) == Len(addrs)

\* Mutant of VerifyStart: the early return on an empty domainQueue is missing.
VerifyStartNoFastPath ==
    /\ pc = "start"
    /\ LET q == Group(addresses)
           n == Cardinality(DOMAIN q)
           wc == WorkerCount(maxWorkerCount, n)
       IN /\ domainQueue' = q
          /\ pending' = DOMAIN q
          /\ made' = TRUE
          /\ workers' = wc
          /\ w' = [k \in WorkerIds |->
                     IF k <= wc THEN WorkerAt("recv") ELSE w[k]]
          /\ pc' = "enqueue"
    /\ UNCHANGED <<entry, email, maxWorkerCount, addresses, jobs, jobsClosed,
                   results, lookups, singleRet, calls>>

\* Lines 64-94: group, return early on no work, make the channels, start workers.
VerifyStart ==
    /\ pc = "start"
    /\ LET q == Group(addresses)
           n == Cardinality(DOMAIN q)
           wc == WorkerCount(maxWorkerCount, n)
       IN IF n = 0
          THEN /\ pc' = "returned"
               /\ UNCHANGED <<domainQueue, pending, made, workers, w>>
          ELSE /\ domainQueue' = q
               /\ pending' = DOMAIN q
               /\ made' = TRUE
               /\ workers' = wc
               /\ w' = [k \in WorkerIds |->
                          IF k <= wc THEN WorkerAt("recv") ELSE w[k]]
               /\ pc' = "enqueue"
    /\ UNCHANGED <<entry, email, maxWorkerCount, addresses, jobs, jobsClosed,
                   results, lookups, singleRet, calls>>

\* Lines 97-99: jobs <- addresses, in map iteration order (unspecified).
VerifyEnqueue ==
    /\ pc = "enqueue"
    /\ \E d \in pending :
        /\ Len(jobs) < JobsCap(domainQueue)
        /\ jobs' = Append(jobs, domainQueue[d])
        /\ pending' = pending \ {d}
    /\ UNCHANGED <<entry, email, maxWorkerCount, addresses, pc, domainQueue, made,
                   jobsClosed, results, lookups, workers, w, singleRet, calls>>

\* Line 100: close(jobs).
VerifyClose ==
    /\ pc = "enqueue"
    /\ pending = {}
    /\ jobsClosed' = TRUE
    /\ pc' = "drain"
    /\ UNCHANGED <<entry, email, maxWorkerCount, addresses, domainQueue, pending,
                   made, jobs, results, lookups, workers, w, singleRet, calls>>

\* Lines 103-105: lookups = append(lookups, <-results), len(addresses) times.
VerifyDrain ==
    /\ pc = "drain"
    /\ Len(lookups) < DrainCount(addresses)
    /\ results # <<>>
    /\ lookups' = Append(lookups, Head(results))
    /\ results' = Tail(results)
    /\ UNCHANGED <<entry, email, maxWorkerCount, addresses, pc, domainQueue, pending,
                   made, jobs, jobsClosed, workers, w, singleRet, calls>>

\* Line 106: return lookups.
VerifyReturn ==
    /\ pc = "drain"
    /\ Len(lookups) >= DrainCount(addresses)
    /\ pc' = "returned"
    /\ UNCHANGED <<entry, email, maxWorkerCount, addresses, domainQueue, pending,
                   made, jobs, jobsClosed, results, lookups, workers, w, singleRet, calls>>

(* ------------------------------- worker -------------------------------- *)
\* The Lookup built at lines 174-186 from the locals l for input position p.
Lookup(l, p) ==
    [Address |-> addresses[p].Address,
     Username |-> addresses[p].Username,
     Domain |-> addresses[p].Domain,
     HostExists |-> l.hostExists,
     Deliverable |-> l.deliverable,
     FullInbox |-> l.fullInbox,
     Disposable |-> l.disposable,
     CatchAll |-> l.catchAll,
     Gravatar |-> l.gravatar,
     Error |-> errStr(l.basicErr),
     ErrorDetails |-> errStr(l.detailErr)]

Bump(f, x) == [f EXCEPT ![x] = @ + 1]

\* Mutant of AfterOpen: every failure to open is treated like an absent host.
AfterOpenSuppressAll(j, err) ==
    [IdleLocals EXCEPT
       !.j = j,
       !.deliverabler = (err = NilErr),
       !.hostExists = (err = NilErr)]

\* Mutant of AfterOpen: the error of an absent host is kept.
AfterOpenKeepsAbsentErr(j, err) ==
    LET c == parseSTDErr(err)
        absent == err # NilErr /\ c[1] = ErrNoSuchHost
    IN [IdleLocals EXCEPT
          !.j = j,
          !.deliverabler = (err = NilErr),
          !.hostExists = ~absent,
          !.basicErr = IF err = NilErr THEN NilErr ELSE c[1],
          !.detailErr = IF err = NilErr THEN NilErr ELSE c[2]]

\* Lines 115-129: the locals after NewDeliverabler returned err for batch j.
AfterOpen(j, err) ==
    LET c == parseSTDErr(err)
        absent == err # NilErr /\ c[1] = ErrNoSuchHost
    IN [IdleLocals EXCEPT
          !.j = j,
          !.deliverabler = (err = NilErr),
          !.hostExists = ~absent,
          !.basicErr = IF err = NilErr \/ absent THEN NilErr ELSE c[1],
          !.detailErr = IF err = NilErr \/ absent THEN NilErr ELSE c[2]]

\* Lines 113-129: receive a batch from jobs and open the session of its domain.
WorkerOpen(k) ==
    /\ w[k].pc = "recv"
    /\ jobs # <<>>
    /\ \E err \in OpenErrs :
        LET j == Head(jobs)
            d == addresses[j[1]].Domain
        IN /\ w' = [w EXCEPT ![k] = [pc |-> "catchall"] @@ AfterOpen(j, err)]
           /\ calls' = [calls EXCEPT
                          !.open = Bump(@, d),
                          !.opened = IF err = NilErr THEN Bump(@, d) ELSE @,
                          !.openRet[d] = err]
    /\ jobs' = Tail(jobs)
    /\ UNCHANGED <<entry, email, maxWorkerCount, addresses, pc, domainQueue, pending,
                   made, jobsClosed, results, lookups, workers, singleRet>>

\* Line 113: the range over jobs ends once jobs is closed and empty.
WorkerExit(k) ==
    /\ w[k].pc = "recv"
    /\ jobs = <<>>
    /\ jobsClosed
    /\ w' = [w EXCEPT ![k].pc = "exited"]
    /\ UNCHANGED <<entry, email, maxWorkerCount, addresses, pc, domainQueue, pending,
                   made, jobs, jobsClosed, results, lookups, workers, singleRet, calls>>

\* Lines 133-137: catch-all detection, once per batch, only with a session.
WorkerCatchAll(k) ==
    /\ w[k].pc = "catchall"
    /\ LET d == addresses[w[k].j[1]].Domain IN
       IF w[k].deliverabler
       THEN \E r \in BOOLEAN :
              /\ w' = [w EXCEPT ![k].catchAll = r, ![k].pc = "disposable"]
              /\ calls' = [calls EXCEPT !.catchAll = Bump(@, d),
                                        !.catchAllRet[d] = IF r THEN "true" ELSE "false"]
       ELSE /\ w' = [w EXCEPT ![k].pc = "disposable"]
            /\ UNCHANGED calls
    /\ UNCHANGED <<entry, email, maxWorkerCount, addresses, pc, domainQueue, pending,
                   made, jobs, jobsClosed, results, lookups, workers, singleRet>>

\* Line 138: disposable = v.disposabler.IsDisposable(j[0].Domain).
WorkerDisposable(k) ==
    /\ w[k].pc = "disposable"
    /\ LET d == addresses[w[k].j[1]].Domain IN
         /\ w' = [w EXCEPT ![k].disposable = IsDisposable(d),
                           ![k].i = 1, ![k].pc = "tasks"]
         /\ calls' = [calls EXCEPT !.disposable = Bump(@, d)]
    /\ UNCHANGED <<entry, email, maxWorkerCount, addresses, pc, domainQueue, pending,
                   made, jobs, jobsClosed, results, lookups, workers, singleRet>>

\* Mutant of AfterProbe: the full-inbox failure is not recognised.
AfterProbeFullIgnored(l, err) ==
    IF l.catchAll
    THEN [l EXCEPT !.deliverable = TRUE]
    ELSE IF l.deliverabler
    THEN IF err # NilErr
         THEN LET c == parseRCPTErr(err)
                  absent == c[1] = ErrNoSuchHost
              IN [l EXCEPT
                    !.basicErr = IF absent THEN NilErr ELSE c[1],
                    !.detailErr = IF absent THEN NilErr ELSE c[2],
                    !.hostExists = IF absent THEN FALSE ELSE @]
         ELSE [l EXCEPT !.deliverable = TRUE]
    ELSE l

\* Mutant of AfterProbe: a catch-all domain skips the probe but deliverable is
\* left unset.
AfterProbeCatchAllUnset(l, err) ==
    IF l.catchAll
    THEN l
    ELSE IF l.deliverabler
    THEN IF err # NilErr
         THEN LET c == parseRCPTErr(err)
                  absent == c[1] = ErrNoSuchHost
              IN [l EXCEPT
                    !.fullInbox = IF err = ErrFullInbox THEN TRUE ELSE @,
                    !.basicErr = IF absent THEN NilErr ELSE c[1],
                    !.detailErr = IF absent THEN NilErr ELSE c[2],
                    !.hostExists = IF absent THEN FALSE ELSE @]
         ELSE [l EXCEPT !.deliverable = TRUE]
    ELSE l

\* Lines 148-164: the locals after the first task of the errgroup ran, err
\* being what IsDeliverable returns when it is called.
AfterProbe(l, err) ==
    IF l.catchAll
    THEN [l EXCEPT !.deliverable = TRUE]
    ELSE IF l.deliverabler
    THEN IF err # NilErr
         THEN LET c == parseRCPTErr(err)
                  absent == c[1] = ErrNoSuchHost
              IN [l EXCEPT
                    !.fullInbox = IF err = ErrFullInbox THEN TRUE ELSE @,
                    !.basicErr = IF absent THEN NilErr ELSE c[1],
                    !.detailErr = IF absent THEN NilErr ELSE c[2],
                    !.hostExists = IF absent THEN FALSE ELSE @]
         ELSE [l EXCEPT !.deliverable = TRUE]
    ELSE l

\* Mutant of Probes: IsDeliverable is called whenever there is a session.
ProbesAlways(l) == l.deliverabler

\* IsDeliverable is called at line 151 only: no catch-all and a session.
Probes(l) == ~l.catchAll /\ l.deliverabler

\* Lines 147-166: first task of the errgroup.
WorkerProbe(k) ==
    /\ w[k].pc = "tasks"
    /\ ~w[k].probeDone
    /\ LET d == addresses[w[k].j[1]].Domain IN
       \E err \in (IF Probes(w[k]) THEN ProbeErrs ELSE {NilErr}) :
         /\ w' = [w EXCEPT ![k] = [AfterProbe(w[k], err) EXCEPT !.probeDone = TRUE]]
         /\ calls' = [calls EXCEPT
                        !.probe = IF Probes(w[k]) THEN Bump(@, d) ELSE @,
                        !.probeRet[w[k].j[w[k].i]] = IF Probes(w[k]) THEN err ELSE @]
    /\ UNCHANGED <<entry, email, maxWorkerCount, addresses, pc, domainQueue, pending,
                   made, jobs, jobsClosed, results, lookups, workers, singleRet>>

\* Mutant of WorkerGravatar: the gravatar is looked up only with a session.
WorkerGravatarWithSession(k) ==
    /\ w[k].pc = "tasks"
    /\ ~w[k].gravatarDone
    /\ LET p == w[k].j[w[k].i] IN
         /\ w' = [w EXCEPT ![k].gravatar = w[k].deliverabler /\ HasGravatar(addresses[p]),
                           ![k].gravatarDone = TRUE]
         /\ calls' = [calls EXCEPT
                        !.gravatar = IF w[k].deliverabler THEN Bump(@, p) ELSE @]
    /\ UNCHANGED <<entry, email, maxWorkerCount, addresses, pc, domainQueue, pending,
                   made, jobs, jobsClosed, results, lookups, workers, singleRet>>

\* Lines 167-170: second task of the errgroup, gravatar = v.HasGravatar(address).
WorkerGravatar(k) ==
    /\ w[k].pc = "tasks"
    /\ ~w[k].gravatarDone
    /\ LET p == w[k].j[w[k].i] IN
         /\ w' = [w EXCEPT ![k].gravatar = HasGravatar(addresses[p]),
                           ![k].gravatarDone = TRUE]
         /\ calls' = [calls EXCEPT !.gravatar = Bump(@, p)]
    /\ UNCHANGED <<entry, email, maxWorkerCount, addresses, pc, domainQueue, pending,
                   made, jobs, jobsClosed, results, lookups, workers, singleRet>>

\* Mutant of NextAddress: hostExists is a per-address local too.
NextAddressFreshHost(l) ==
    [l EXCEPT !.i = @ + 1, !.deliverable = FALSE, !.fullInbox = FALSE,
              !.gravatar = FALSE, !.probeDone = FALSE, !.gravatarDone = FALSE,
              !.hostExists = TRUE,
              !.pc = IF l.i < Len(l.j) THEN "tasks" ELSE "close"]

\* Mutant of NextAddress: catchAll is a per-address local too.
NextAddressFreshCatchAll(l) ==
    [l EXCEPT !.i = @ + 1, !.deliverable = FALSE, !.fullInbox = FALSE,
              !.gravatar = FALSE, !.probeDone = FALSE, !.gravatarDone = FALSE,
              !.catchAll = FALSE,
              !.pc = IF l.i < Len(l.j) THEN "tasks" ELSE "close"]

\* Mutant of NextAddress: the address loop is left after the first address.
NextAddressBreak(l) ==
    [l EXCEPT !.i = @ + 1, !.deliverable = FALSE, !.fullInbox = FALSE,
              !.gravatar = FALSE, !.probeDone = FALSE, !.gravatarDone = FALSE,
              !.pc = "close"]

\* Lines 141-144: the per-address locals are fresh for the next address.
NextAddress(l) ==
    [l EXCEPT !.i = @ + 1, !.deliverable = FALSE, !.fullInbox = FALSE,
              !.gravatar = FALSE, !.probeDone = FALSE, !.gravatarDone = FALSE,
              !.pc = IF l.i < Len(l.j) THEN "tasks" ELSE "close"]

\* Mutant of WorkerEmit: g.Wait() is missing, the Lookup is sent while the
\* tasks may still run.
WorkerEmitNoWait(k) ==
    /\ w[k].pc = "tasks"
    /\ Len(results) < ResultsCap(addresses)
    /\ results' = Append(results, Lookup(w[k], w[k].j[w[k].i]))
    /\ w' = [w EXCEPT ![k] = NextAddress(w[k])]
    /\ calls' = [calls EXCEPT !.sent = Append(@, w[k].j[w[k].i])]
    /\ UNCHANGED <<entry, email, maxWorkerCount, addresses, pc, domainQueue, pending,
                   made, jobs, jobsClosed, lookups, workers, singleRet>>

\* Lines 171-186: g.Wait(), then send the Lookup of the address on results.
WorkerEmit(k) ==
    /\ w[k].pc = "tasks"
    /\ w[k].probeDone /\ w[k].gravatarDone
    /\ Len(results) < ResultsCap(addresses)
    /\ results' = Append(results, Lookup(w[k], w[k].j[w[k].i]))
    /\ w' = [w EXCEPT ![k] = NextAddress(w[k])]
    /\ calls' = [calls EXCEPT !.sent = Append(@, w[k].j[w[k].i])]
    /\ UNCHANGED <<entry, email, maxWorkerCount, addresses, pc, domainQueue, pending,
                   made, jobs, jobsClosed, lookups, workers, singleRet>>

\* Mutant of WorkerClose: the session is not closed once a probe reported the
\* host absent.
WorkerCloseUnlessAbsent(k) ==
    /\ w[k].pc = "close"
    /\ LET d == addresses[w[k].j[1]].Domain IN
         calls' = [calls EXCEPT
                     !.close = IF w[k].deliverabler /\ w[k].hostExists
                               THEN Bump(@, d) ELSE @]
    /\ w' = [w EXCEPT ![k] = WorkerAt("recv")]
    /\ UNCHANGED <<entry, email, maxWorkerCount, addresses, pc, domainQueue, pending,
                   made, jobs, jobsClosed, results, lookups, workers, singleRet>>

\* Lines 191-193: close the session if there is one, then loop to line 113.
WorkerClose(k) ==
    /\ w[k].pc = "close"
    /\ LET d == addresses[w[k].j[1]].Domain IN
         calls' = [calls EXCEPT
                     !.close = IF w[k].deliverabler THEN Bump(@, d) ELSE @]
    /\ w' = [w EXCEPT ![k] = WorkerAt("recv")]
    /\ UNCHANGED <<entry, email, maxWorkerCount, addresses, pc, domainQueue, pending,
                   made, jobs, jobsClosed, results, lookups, workers, singleRet>>

Worker(k) ==
    \/ WorkerOpen(k)
    \/ WorkerExit(k)
    \/ WorkerCatchAll(k)
    \/ WorkerDisposable(k)
    \/ WorkerProbe(k)
    \/ WorkerGravatar(k)
    \/ WorkerEmit(k)
    \/ WorkerClose(k)

Caller ==
    \/ VerifySingleParse
    \/ VerifySingleReturn
    \/ VerifyStart
    \/ VerifyEnqueue
    \/ VerifyClose
    \/ VerifyDrain
    \/ VerifyReturn

Next == Caller \/ \E k \in WorkerIds : Worker(k)

Spec == Init /\ [][Next]_vars

\* Go's scheduler runs every goroutine that can take a step.
FairSpec == Spec /\ WF_vars(Caller) /\ \A k \in WorkerIds : WF_vars(Worker(k))

(* ============================== properties ============================= *)
\* Every Lookup sent on results so far, in the order sent.
Emitted == lookups \o results

\* The n-th Lookup sent.
EmittedAt(n) == IF n <= Len(lookups) THEN lookups[n] ELSE results[n - Len(lookups)]

EmittedIdx == 1..(Len(lookups) + Len(results))

EmittedSet == Range(Emitted)

\* Verify has returned to its caller.
Returned == pc = "returned" \/ (pc = "singleReturned" /\ addresses # <<>>)

Started == {k \in WorkerIds : w[k].pc # "unstarted"}

Running == {k \in WorkerIds : w[k].pc \notin {"unstarted", "exited"}}

InputDomains == {addresses[n].Domain : n \in 1..Len(addresses)}

Occurrences(s, a) == Cardinality({n \in 1..Len(s) : s[n].Address = a})

RECURSIVE Sum(_, _)
Sum(f, S) == IF S = {} THEN 0
             ELSE LET x == CHOOSE y \in S : TRUE IN f[x] + Sum(f, S \ {x})

\* Sessions opened and not yet closed.
OpenSessions == Sum(calls.opened, Domains) - Sum(calls.close, Domains)

\* The worker that holds the batch of domain d, if any.
Holders(d) == {k \in WorkerIds : w[k].j # <<>> /\ addresses[w[k].j[1]].Domain = d}

\* C1: when Verify has returned, its result holds exactly one Lookup per input
\* address: as many records as inputs, and each address string as often as it
\* occurs in the input.
C1_OneLookupPerAddress ==
    Returned =>
        /\ Len(lookups) = Len(addresses)
        /\ \A a \in AddrUniverse :
             Occurrences(lookups, a.Address) = Occurrences(addresses, a.Address)

\* Verify returned for two addresses of two domains served by two workers.
C1_Witness ==
    /\ Returned
    /\ Len(addresses) = 2
    /\ Cardinality(InputDomains) = 2
    /\ Cardinality(Started) = 2

\* C2: a Verify call on a non-empty input never stays blocked: it is never
\* waiting for a result that no goroutine is left to send.
C2_NeverBlockedOnResults ==
    ~ /\ pc = "drain"
      /\ Len(lookups) < Len(addresses)
      /\ results = <<>>
      /\ Running = {}

\* C3: a Lookup with hostExists = false is not deliverable, has no full inbox,
\* is not catch-all and carries no error text.
C3_HostAbsentClearsAll ==
    \A n \in EmittedIdx :
      LET l == EmittedAt(n) IN
        ~l.HostExists =>
            /\ ~l.Deliverable
            /\ ~l.FullInbox
            /\ ~l.CatchAll
            /\ l.Error = ""
            /\ l.ErrorDetails = ""

\* C4: every Lookup that is catch-all is deliverable.
C4_CatchAllDeliverable ==
    \A n \in EmittedIdx : EmittedAt(n).CatchAll => EmittedAt(n).Deliverable

\* A catch-all Lookup was produced.
C4_Witness == \E l \in EmittedSet : l.CatchAll

\* C5: the session of a domain is opened exactly once, when a worker receives
\* the domain's batch, and a session that opened is closed exactly once, when
\* that worker has finished the batch: never twice, and never left open once
\* the batch is done.
C5_OpenOnceCloseOnce ==
    \A d \in Domains :
        LET received == d \in DOMAIN domainQueue /\ d \notin pending
                        /\ \A n \in 1..Len(jobs) : jobs[n] # domainQueue[d]
            holders == Holders(d)
        IN /\ calls.open[d] = (IF received THEN 1 ELSE 0)
           /\ calls.opened[d] <= calls.open[d]
           /\ calls.close[d] =
                (IF calls.opened[d] = 1 /\ holders = {} THEN 1 ELSE 0)
           /\ \A k, o \in holders : k = o
           /\ (Returned /\ d \in DOMAIN domainQueue) => calls.open[d] = 1

\* The call is over, and the session of a two-address batch, one of whose
\* probes failed, was opened once and closed once.
C5_Witness ==
    /\ Returned
    /\ Running = {}
    /\ \E d \in DOMAIN domainQueue :
        /\ Len(domainQueue[d]) = 2
        /\ calls.opened[d] = 1
        /\ calls.close[d] = 1
        /\ \E l \in EmittedSet : l.Domain = d /\ l.Error # ""

\* C6: when catch-all detection returned true for a domain, the deliverability
\* probe is never invoked for that domain and every Lookup of the domain is
\* deliverable and catch-all.
C6_CatchAllSkipsProbe ==
    \A d \in Domains :
        calls.catchAllRet[d] = "true" =>
            /\ calls.probe[d] = 0
            /\ \A n \in EmittedIdx :
                 LET l == EmittedAt(n) IN l.Domain = d => l.Deliverable /\ l.CatchAll

\* Both Lookups of a two-address catch-all batch were produced.
C6_Witness ==
    \E d \in Domains :
        /\ calls.catchAllRet[d] = "true"
        /\ Len(SelectSeq(Emitted, LAMBDA l : l.Domain = d)) = 2

C8_GravatarIndependent ==
    /\ \A n \in EmittedIdx :
         EmittedAt(n).Gravatar = (EmittedAt(n).Address \in GravatarAddresses)
    /\ \A p \in Positions : calls.gravatar[p] <= 1
    /\ \A n \in 1..Len(calls.sent) : calls.gravatar[calls.sent[n]] = 1
    /\ Returned => \A p \in 1..Len(addresses) : calls.gravatar[p] = 1

\* A Lookup has the gravatar flag although its session could not be opened,
\* and another although its probe failed.
C8_Witness ==
    /\ \E l \in EmittedSet :
         l.Gravatar /\ ~l.HostExists /\ calls.opened[l.Domain] = 0
    /\ \E l \in EmittedSet :
         l.Gravatar /\ l.Error # "" /\ calls.probe[l.Domain] > 0

\* C9: Verify on an empty input returns an empty list at once: no channel is
\* made, no worker started, no collaborator called, no other position reached.
C9_EmptyInput ==
    (entry = "Verify" /\ addresses = <<>>) =>
        /\ pc \in {"start", "returned"}
        /\ lookups = <<>>
        /\ ~made
        /\ jobs = <<>> /\ results = <<>> /\ ~jobsClosed
        /\ Started = {}
        /\ calls = NoCalls

\* Verify has returned for the empty input.
C9_Witness == entry = "Verify" /\ addresses = <<>> /\ pc = "returned"

\* C10: VerifySingle on a string the parser rejects returns
\* ErrEmailParseFailure and no Lookup and never starts Verify; on a string the
\* parser accepts it returns, without error, the single Lookup of Verify's
\* result, which is the Lookup of that address.
C10_VerifySingle ==
    entry = "VerifySingle" =>
        IF ParseAddress(email).err # NilErr
        THEN /\ pc \in {"single", "singleReturned"}
             /\ ~made /\ Started = {} /\ calls = NoCalls
             /\ pc = "singleReturned" =>
                  singleRet = [lookup |-> <<>>, err |-> ErrEmailParseFailure,
                               done |-> TRUE]
        ELSE /\ ~singleRet.done <=> pc # "singleReturned"
             /\ pc = "singleReturned" =>
                  /\ singleRet.err = NilErr
                  /\ lookups = <<singleRet.lookup>>
                  /\ singleRet.lookup.Address = email

\* VerifySingle has returned for the string the parser rejects.
C10_Witness ==
    entry = "VerifySingle" /\ email = "not-an-email" /\ pc = "singleReturned"

(* ---------------------- properties of single Lookups ------------------- *)
\* Input positions whose Lookup was sent on results.
Sent == Range(calls.sent)

\* The Lookup sent for input position p.
LookupOf(p) == EmittedAt(CHOOSE n \in 1..Len(calls.sent) : calls.sent[n] = p)

\* The n-th send on results carried the Lookup of position calls.sent[n].
SentIdx == 1..Len(calls.sent)

DomainOf(p) == addresses[p].Domain

\* Sent positions of domain d.
SentOf(d) == {p \in Sent : DomainOf(p) = d}

\* What the session of d returned when it was opened.
OpenedOk(d) == calls.openRet[d] = NilErr

OpenAbsent(d) ==
    calls.openRet[d] \notin {"none", NilErr}
    /\ parseSTDErr(calls.openRet[d])[1] = ErrNoSuchHost

OpenFailed(d) ==
    calls.openRet[d] \notin {"none", NilErr}
    /\ parseSTDErr(calls.openRet[d])[1] # ErrNoSuchHost

\* What the probe of position p returned.
ProbeOk(p) == calls.probeRet[p] = NilErr

ProbeFull(p) == calls.probeRet[p] = ErrFullInbox

ProbeAbsent(p) ==
    calls.probeRet[p] \notin {"none", NilErr, ErrFullInbox}
    /\ parseRCPTErr(calls.probeRet[p])[1] = ErrNoSuchHost

ProbeFailed(p) ==
    calls.probeRet[p] \notin {"none", NilErr, ErrFullInbox}
    /\ parseRCPTErr(calls.probeRet[p])[1] # ErrNoSuchHost

NoErrorText(l) == l.Error = "" /\ l.ErrorDetails = ""

\* C11: when opening the session of a domain fails as host absent, no
\* catch-all detection, probe or close is made for the domain and each of its
\* Lookups has hostExists, deliverable, fullInbox, catchAll false and no error
\* text; a Lookup of a domain whose session opened and none of whose probes
\* reported the host absent has hostExists true.
C11_HostAbsentAtOpen ==
    /\ \A d \in Domains :
         OpenAbsent(d) =>
            calls.catchAll[d] = 0 /\ calls.probe[d] = 0 /\ calls.close[d] = 0
    /\ \A n \in SentIdx :
         LET p == calls.sent[n]
             l == EmittedAt(n)
             d == DomainOf(p)
         IN /\ OpenAbsent(d) =>
                 /\ ~l.HostExists /\ ~l.Deliverable /\ ~l.FullInbox /\ ~l.CatchAll
                 /\ NoErrorText(l)
            /\ (OpenedOk(d) /\ \A q \in 1..Len(addresses) :
                                  DomainOf(q) = d => ~ProbeAbsent(q)) =>
                 /\ l.HostExists
                 /\ ProbeOk(p) => l.Deliverable

\* The Lookup of a host-absent domain and the deliverable Lookup of another
\* domain were both sent.
C11_Witness ==
    \E d, e \in Domains :
        /\ OpenAbsent(d) /\ SentOf(d) # {}
        /\ OpenedOk(e) /\ \E p \in SentOf(e) : ProbeOk(p) /\ LookupOf(p).Deliverable

\* C12: a probe failure that is neither mailbox-full nor host-absent is on the
\* Lookup of the address whose probe failed and on no Lookup of an address
\* whose own probe succeeded.
C12_ProbeErrorOnItsLookupOnly ==
    \A n \in SentIdx :
        LET p == calls.sent[n]
            l == EmittedAt(n)
            c == parseRCPTErr(calls.probeRet[p])
        IN /\ ProbeFailed(p) => l.Error = errStr(c[1]) /\ l.ErrorDetails = errStr(c[2])
           /\ ProbeOk(p) => NoErrorText(l)

\* C13: when opening the session of a domain fails otherwise than host absent,
\* every Lookup of the domain carries the classified pair, has hostExists true
\* and deliverable false; a Lookup carries error text only when its own
\* domain's session failed to open or a probe of its own batch failed.
C13_OpenErrorOnItsBatchOnly ==
    \A n \in SentIdx :
        LET p == calls.sent[n]
            l == EmittedAt(n)
            d == DomainOf(p)
            c == parseSTDErr(calls.openRet[d])
        IN /\ OpenFailed(d) =>
                /\ l.Error = errStr(c[1]) /\ l.ErrorDetails = errStr(c[2])
                /\ l.Error # ""
                /\ l.HostExists /\ ~l.Deliverable
           /\ ~NoErrorText(l) =>
                \/ OpenFailed(d)
                \/ \E m \in SentIdx :
                     DomainOf(calls.sent[m]) = d /\ ProbeFailed(calls.sent[m])

\* One worker sent the Lookup of a domain that failed to open, carrying the
\* error, and then the Lookup of another domain, carrying none.
C13_Witness ==
    /\ Cardinality(Started) = 1
    /\ Len(calls.sent) = 2
    /\ DomainOf(calls.sent[1]) # DomainOf(calls.sent[2])
    /\ OpenFailed(DomainOf(calls.sent[1]))
    /\ Emitted[1].Error # ""
    /\ NoErrorText(Emitted[2])

AbsentUpTo(p) ==
    \E q \in 1..p : DomainOf(q) = DomainOf(p) /\ ProbeAbsent(q)

\* C15: in a batch whose session opened, hostExists of a Lookup is false
\* exactly when the probe of its address or of an earlier address of the batch
\* reported the host absent, and a Lookup once sent is never changed.
C15_ForwardOnlyDowngrade ==
    /\ [](\A n \in SentIdx :
            LET p == calls.sent[n] IN
            OpenedOk(DomainOf(p)) => (EmittedAt(n).HostExists <=> ~AbsentUpTo(p)))
    /\ [][/\ Len(Emitted') >= Len(Emitted)
          /\ \A n \in 1..Len(Emitted) : Emitted'[n] = Emitted[n]]_vars

\* The probe of the second address of a batch reported the host absent: its
\* Lookup has hostExists false, the first address's Lookup has it true.
C15_Witness ==
    /\ Sent = {1, 2}
    /\ DomainOf(1) = DomainOf(2)
    /\ ProbeAbsent(2)
    /\ LookupOf(1).HostExists
    /\ ~LookupOf(2).HostExists

\* C16: when Verify has returned, no session is still open.
C16_ClosedBeforeReturn == Returned => OpenSessions = 0

\* C17: a session is closed only after the Lookup of every address of its
\* batch was sent; catch-all detection, probe and close are called only on a
\* session that is open, by the one worker that holds its batch.
C17_SessionUse ==
    /\ [](\A d \in Domains :
            /\ calls.close[d] > 0 => Range(domainQueue[d]) \subseteq Sent
            /\ Cardinality(Holders(d)) <= 1)
    /\ [][\A d \in Domains :
            (\/ calls'.catchAll[d] > calls.catchAll[d]
             \/ calls'.probe[d] > calls.probe[d]
             \/ calls'.close[d] > calls.close[d]) =>
                /\ calls.opened[d] = 1
                /\ calls.close[d] = 0
                /\ \E k \in Holders(d) :
                     /\ w[k].deliverabler
                     /\ w[k].j = domainQueue[d]
                     /\ \A o \in WorkerIds \ {k} : w'[o] = w[o]]_vars

\* The session of a two-address batch was probed twice and closed.
C17_Witness ==
    \E d \in Domains :
        /\ calls.probe[d] = 2
        /\ calls.close[d] = 1
        /\ Cardinality(SentOf(d)) = 2

\* C18: a Lookup is sent only after both tasks of its address have run, and
\* it holds what they wrote: deliverable, fullInbox, hostExists, the error
\* pair and the gravatar flag.
C18_JoinBeforeEmit ==
    \A n \in SentIdx :
        LET p == calls.sent[n]
            l == EmittedAt(n)
            d == DomainOf(p)
            probed == OpenedOk(d) /\ calls.catchAllRet[d] = "false"
            c == parseRCPTErr(calls.probeRet[p])
        IN /\ calls.gravatar[p] = 1
           /\ l.Gravatar = HasGravatar(addresses[p])
           /\ probed <=> calls.probeRet[p] # "none"
           /\ l.Deliverable <=>
                \/ calls.catchAllRet[d] = "true"
                \/ probed /\ ProbeOk(p)
           /\ l.FullInbox <=> ProbeFull(p)
           /\ ProbeAbsent(p) => ~l.HostExists /\ NoErrorText(l)
           /\ ProbeFailed(p) => l.Error = errStr(c[1]) /\ l.ErrorDetails = errStr(c[2])

\* A Lookup was sent that holds the gravatar flag written by one task and the
\* error written by the other.
C18_Witness ==
    \E p \in Sent : ProbeFailed(p) /\ LookupOf(p).Gravatar /\ LookupOf(p).Error # ""

\* A send that would wait for room: a batch on jobs, a Lookup on results.
EnqueueBlocked == pc = "enqueue" /\ pending # {} /\ Len(jobs) >= JobsCap(domainQueue)

EmitBlocked ==
    \E k \in WorkerIds :
        /\ w[k].pc = "tasks" /\ w[k].probeDone /\ w[k].gravatarDone
        /\ Len(results) >= ResultsCap(addresses)

\* A worker waiting at line 113 for a batch or for close(jobs).
WorkerWaits == \E k \in WorkerIds : w[k].pc = "recv" /\ jobs = <<>> /\ ~jobsClosed

\* C19 as stated: jobs holds at most one batch per domain and results at most
\* one Lookup per address, no send ever waits, and no operation waits but the
\* caller's receive from results.
C19_OnlyCallerWaits ==
    made =>
        /\ Len(jobs) <= Cardinality(DOMAIN domainQueue)
        /\ Len(results) <= Len(addresses)
        /\ ~EnqueueBlocked
        /\ ~EmitBlocked
        /\ ~WorkerWaits

\* C19, amended: jobs holds at most one batch per domain and results at most
\* one Lookup per address, and no send ever waits (the operations that can
\* wait are the caller's receive from results and a worker's receive from
\* jobs).
C19_SendsNeverWait ==
    made =>
        /\ Len(jobs) <= Cardinality(DOMAIN domainQueue)
        /\ Len(results) <= Len(addresses)
        /\ ~EnqueueBlocked
        /\ ~EmitBlocked

\* results holds the Lookups of both inputs, none received yet.
C19_Witness == Len(addresses) = 2 /\ Len(results) = 2

\* C20: catch-all detection is called once per opened session, before any
\* probe, and the disposable check once per batch; all Lookups of a domain
\* carry what these returned.
C20_DomainFlagsOnce ==
    /\ \A d \in Domains :
         LET holders == Holders(d) IN
         /\ calls.catchAll[d] =
              (IF calls.opened[d] = 1 /\ \A k \in holders : w[k].pc # "catchall"
               THEN 1 ELSE 0)
         /\ calls.disposable[d] =
              (IF calls.open[d] = 1
                  /\ \A k \in holders : w[k].pc \notin {"catchall", "disposable"}
               THEN 1 ELSE 0)
         /\ calls.probe[d] > 0 => calls.catchAll[d] = 1
    /\ \A n \in SentIdx :
         LET l == EmittedAt(n)
             d == DomainOf(calls.sent[n])
         IN /\ l.CatchAll <=> calls.catchAllRet[d] = "true"
            /\ l.Disposable <=> IsDisposable(d)

\* Both Lookups of a two-address batch were sent after one catch-all
\* detection and one disposable check.
C20_Witness ==
    \E d \in Domains :
        /\ Cardinality(SentOf(d)) = 2
        /\ calls.catchAll[d] = 1
        /\ calls.disposable[d] = 1
        /\ calls.catchAllRet[d] = "true"

====
